---- MODULE Spec2Model ----
(***************************************************************************)
(* Model of the cookbook scripts of the repository:                        *)
(*   Chapter01/.../05_operations.py              (custom_polynomial)       *)
(*   Chapter10/.../01_implementing_unit_tests.py (CNN training, tests)     *)
(*   Chapter10/.../06_Using_TensorFlow_Serving_Train.py (RNN, export)      *)
(* Strings are sequences of one-character strings; probabilities are in    *)
(* hundredths (0.75 is 75).                                                *)
(***************************************************************************)
EXTENDS Integers, Sequences, FiniteSets, TLC

VARIABLES
    ct_pc, ct_in, ct_out,                 \* clean_text: position, argument, result
    fs_dirs, fs_files, fs_init, gd_calls, gd_downloads, gd_last,  \* get_data and the disk
    cp_pc, cp_x, cp_out,                  \* custom_polynomial: position, argument, result
    ga_pc, ga_logits, ga_targets, ga_out, \* get_accuracy: position, arguments, result
    sh_pc, sh_width, sh_height, sh_out,   \* my_conv_net shape inference
    script, argv, FLAGS, pc,              \* the script run, its command line, flags, position
    tests_run, main_runs,                 \* unit tests performed, calls of main
    i, fed, train_steps,                  \* loop index, dropout values fed, training steps
    train_loss, train_acc, test_acc, evals,      \* unit-tests main: result lists
    epoch, n_train, vocab_saved, ckpt_saves, train_evals, test_evals, exports, done_printed,
    signature_def_map                     \* the signatures of the exported SavedModel

ctVars == <<ct_pc, ct_in, ct_out>>
gdVars == <<fs_dirs, fs_files, fs_init, gd_calls, gd_downloads, gd_last>>
cpVars == <<cp_pc, cp_x, cp_out>>
gaVars == <<ga_pc, ga_logits, ga_targets, ga_out>>
shVars == <<sh_pc, sh_width, sh_height, sh_out>>
runVars == <<script, argv, FLAGS, pc, tests_run, main_runs, i, fed, train_steps,
             train_loss, train_acc, test_acc, evals,
             epoch, n_train, vocab_saved, ckpt_saves, train_evals, test_evals,
             exports, done_printed, signature_def_map>>
vars == <<ctVars, gdVars, cpVars, gaVars, shVars, runVars>>

(***************************************************************************)
(* Bounds of the model.                                                    *)
(***************************************************************************)
MaxLen == 4
MaxCalls == 2
MaxX == 60
MaxRows == 2
MaxLogit == 2
DimSpread == 4
MaxArgs == 2
MaxEpochs == 2
MaxBatch == 2
MaxTrain == 3

\* Sequences over S of length at most n.
SeqUpTo(S, n) == UNION {[1..k -> S] : k \in 0..n}

(***************************************************************************)
(* clean_text (serving script, lines 78-82).                               *)
(***************************************************************************)
Upper == {"A", "T", "F", "G", "D"}
Lower == {"a", "t", "f", "g", "d", "e", "n", "s", "o", "r", "l", "w", "u",
          "y", "h", "i", "k"}
Digits == {"7"}
Spaces == {" ", "\t", "\n"}
Punct == {"-", "'", "!", "?"}

\* the characters the enumerated arguments are built from
Chars == {"A", "a", "7", "_", "-", " ", "\t"}

\* test_input and test_expected of clean_test.clean_string_test (lines 90-91)
test_input ==
    <<"-", "-", "T", "e", "n", "s", "o", "r", "F", "l", "o", "w", "'", "s", " ",
      "s", "o", " ", "G", "r", "e", "a", "t", "!", " ", "D", "o", "n", "\t", " ",
      "y", "o", "u", " ", "t", "h", "i", "n", "k", " ", "s", "o", "?", " ", " ", " ">>
test_expected ==
    <<"t", "e", "n", "s", "o", "r", "f", "l", "o", "w", "s", " ", "s", "o", " ",
      "g", "r", "e", "a", "t", " ", "d", "o", "n", " ", "y", "o", "u", " ",
      "t", "h", "i", "n", "k", " ", "s", "o">>

\* \s of the regular expression, and the separators of str.split()
IsSpace(c) == c \in Spaces

\* \w of the regular expression: letters, digits and the underscore
IsWord(c) == c \in Upper \cup Lower \cup Digits \cup {"_"}

\* the pattern without its underscore alternative: ([^\s\w]|[0-9])
RegexMatches_NoUnderscore(c) == (~IsSpace(c) /\ ~IsWord(c)) \/ c \in Digits

\* one character of the pattern ([^\s\w]|_|[0-9])
RegexMatches(c) == (~IsSpace(c) /\ ~IsWord(c)) \/ c = "_" \/ c \in Digits

\* length of the longest match of ([^\s\w]|_|[0-9])+ starting at position p
RECURSIVE MatchLen(_, _)
MatchLen(s, p) ==
    IF p <= Len(s) /\ RegexMatches(s[p]) THEN 1 + MatchLen(s, p + 1) ELSE 0

\* re.sub(pattern, '', s): scan left to right, drop every match
RECURSIVE re_sub(_, _)
re_sub(s, p) ==
    IF p > Len(s) THEN <<>>
    ELSE LET m == MatchLen(s, p)
         IN IF m > 0 THEN re_sub(s, p + m)
            ELSE <<s[p]>> \o re_sub(s, p + 1)

\* str.split(): the maximal runs of non-whitespace characters
RECURSIVE str_split(_, _, _)
str_split(s, p, cur) ==
    IF p > Len(s) THEN (IF cur = <<>> THEN <<>> ELSE <<cur>>)
    ELSE IF IsSpace(s[p])
         THEN (IF cur = <<>> THEN <<>> ELSE <<cur>>) \o str_split(s, p + 1, <<>>)
         ELSE str_split(s, p + 1, Append(cur, s[p]))

\* " ".join(words)
RECURSIVE str_join(_)
str_join(words) ==
    IF words = <<>> THEN <<>>
    ELSE IF Len(words) = 1 THEN words[1]
    ELSE words[1] \o <<" ">> \o str_join(Tail(words))

\* str.lower() on one character
LowerOf == [c \in Upper |-> CASE c = "A" -> "a" [] c = "T" -> "t" [] c = "F" -> "f"
                                  [] c = "G" -> "g" [] c = "D" -> "d"]
LowerChar(c) == IF c \in Upper THEN LowerOf[c] ELSE c

str_lower(s) == [k \in 1..Len(s) |-> LowerChar(s[k])]

clean_text(text_string) ==
    str_lower(str_join(str_split(re_sub(text_string, 1), 1, <<>>)))

CleanInit ==
    /\ ct_pc = "call"
    /\ ct_in \in SeqUpTo(Chars, MaxLen) \cup {test_input}
    /\ ct_out = <<>>

CleanText ==
    /\ ct_pc = "call"
    /\ ct_out' = clean_text(ct_in)
    /\ ct_pc' = "returned"
    /\ UNCHANGED ct_in

(***************************************************************************)
(* get_data (serving script, lines 41-74) and the disk it works on.        *)
(* A path is <<folder, file>>; fs_dirs are the folders that exist and      *)
(* fs_files the regular files that exist.                                  *)
(***************************************************************************)
Folders == {"temp", "models"}
DataFiles == {"text_data.txt", "sms.txt"}
Paths == Folders \X DataFiles

\* os.path.exists(storage_folder)
path_exists(dirs, storage_folder) == storage_folder \in dirs

\* os.path.join(storage_folder, data_file)
path_join(storage_folder, data_file) == <<storage_folder, data_file>>

\* a test of the folder instead of the file: some file lies in storage_folder
path_isfile_AnyInFolder(files, storage_folder, data_file) ==
    \E q \in files : q[1] = storage_folder

\* os.path.isfile(os.path.join(storage_folder, data_file))
path_isfile(files, storage_folder, data_file) ==
    path_join(storage_folder, data_file) \in files

\* the disk states the script can start from: a file lies in an existing folder
DiskStates ==
    {d \in [dirs : SUBSET Folders, files : SUBSET Paths] :
        \A p \in d.files : p[1] \in d.dirs}

GetDataInit ==
    /\ \E d \in DiskStates : fs_dirs = d.dirs /\ fs_files = d.files /\ fs_init = d.files
    /\ gd_calls = [p \in Paths |-> 0]
    /\ gd_downloads = [p \in Paths |-> 0]
    /\ gd_last = [called |-> FALSE]

get_data(storage_folder, data_file) ==
    LET p == path_join(storage_folder, data_file)
        dirs1 == IF ~path_exists(fs_dirs, storage_folder)
                 THEN fs_dirs \cup {storage_folder}      \* os.makedirs
                 ELSE fs_dirs
        absent == ~path_isfile(fs_files, storage_folder, data_file)
    IN /\ gd_calls[p] < MaxCalls
       /\ fs_dirs' = dirs1
       /\ IF absent
          THEN \* requests.get, then the file is written
               /\ fs_files' = fs_files \cup {p}
               /\ gd_downloads' = [gd_downloads EXCEPT ![p] = @ + 1]
          ELSE \* the file is read
               /\ fs_files' = fs_files
               /\ gd_downloads' = gd_downloads
       /\ gd_calls' = [gd_calls EXCEPT ![p] = @ + 1]
       /\ gd_last' = [called |-> TRUE, path |-> p,
                      dir_before |-> storage_folder \in fs_dirs,
                      file_before |-> p \in fs_files,
                      downloaded |-> absent]
       /\ UNCHANGED fs_init

GetData == \E f \in Folders, d \in DataFiles : get_data(f, d)

(***************************************************************************)
(* custom_polynomial (operations script, lines 32-47).  The tensors are    *)
(* int32; for the arguments of the model (|x| <= MaxX) every intermediate  *)
(* value is below 2^31, so no operation wraps.                             *)
(***************************************************************************)
\* doubling instead of squaring
tf_square_Double(x) == 2 * x

tf_square(x) == x * x

tf_subtract(a, b) == a - b

custom_polynomial(x_val) == tf_subtract(3 * tf_square(x_val), x_val) + 10

\* range(15)
test_nums == 0..14

\* [3*x*x-x+10 for x in test_nums], a Python list of Python integers
expected_output == [x \in test_nums |-> 3 * x * x - x + 10]

PolyInit ==
    /\ cp_pc = "call"
    /\ cp_x \in (0 - MaxX)..MaxX
    /\ cp_out = 0

CustomPolynomial ==
    /\ cp_pc = "call"
    /\ cp_out' = custom_polynomial(cp_x)
    /\ cp_pc' = "returned"
    /\ UNCHANGED cp_x

(***************************************************************************)
(* get_accuracy of the unit-tests script (lines 115-118).  logits is a     *)
(* sequence of rows, targets a sequence of column indices (from 0).  The   *)
(* quotient is kept exact, as the fraction <<numerator, denominator>> in   *)
(* lowest terms.                                                           *)
(***************************************************************************)
NumCols == 2

RECURSIVE GCD(_, _)
GCD(a, b) == IF b = 0 THEN a ELSE GCD(b, a % b)

\* 100. * num / den
TrueDiv100(num, den) == LET g == GCD(100 * num, den) IN <<(100 * num) \div g, den \div g>>

\* np.argmax over one row: index (from 0) of the first largest entry
RECURSIVE argmax_scan(_, _, _)
argmax_scan(row, k, best) ==
    IF k > Len(row) THEN best - 1
    ELSE argmax_scan(row, k + 1, IF row[k] > row[best] THEN k ELSE best)

\* np.argmax(logits, axis=1)
np_argmax(logits) == [r \in 1..Len(logits) |-> argmax_scan(logits[r], 2, 1)]

\* np.sum(np.equal(batch_predictions, targets))
RECURSIVE np_sum_equal(_, _, _)
np_sum_equal(preds, targets, r) ==
    IF r > Len(preds) THEN 0
    ELSE (IF preds[r] = targets[r] THEN 1 ELSE 0) + np_sum_equal(preds, targets, r + 1)

\* the number of columns instead of the number of rows
np_shape0_Columns(logits) == Len(logits[1])

\* batch_predictions.shape[0]
np_shape0(logits) == Len(logits)

get_accuracy(logits, targets) ==
    LET batch_predictions == np_argmax(logits)
        num_correct == np_sum_equal(batch_predictions, targets, 1)
    IN TrueDiv100(num_correct, np_shape0(logits))

\* test_preds and test_targets of accuracy_test.accuracy_exact_test, in hundredths
test_preds == <<<<90, 10>>, <<1, 99>>>>
test_targets == <<0, 1>>

AccRows == [1..NumCols -> 0..MaxLogit]

AccInit ==
    /\ ga_pc = "call"
    /\ \/ \E n \in 1..MaxRows :
             /\ ga_logits \in [1..n -> AccRows]
             /\ ga_targets \in [1..n -> 0..(NumCols - 1)]
       \/ ga_logits = test_preds /\ ga_targets = test_targets
    /\ ga_out = <<0, 1>>

GetAccuracy ==
    /\ ga_pc = "call"
    /\ ga_out' = get_accuracy(ga_logits, ga_targets)
    /\ ga_pc' = "returned"
    /\ UNCHANGED <<ga_logits, ga_targets>>

(***************************************************************************)
(* Static shapes of my_conv_net (unit-tests script, lines 25-104).  A      *)
(* shape is a sequence of dimensions; ShapeError is the graph           *)
(* construction error of an operation whose operands do not fit.           *)
(***************************************************************************)
batch_size == 100
num_channels == 1
conv1_features == 25
conv2_features == 50
max_pool_size1 == 2
max_pool_size2 == 2
fully_connected_size1 == 100
target_size == 10
mnist_dim == 28

CeilDiv(a, b) == (a + b - 1) \div b

resulting_width(image_width) == image_width \div (max_pool_size1 * max_pool_size2)
resulting_height(image_height) == image_height \div (max_pool_size1 * max_pool_size2)
full1_input_size(image_width, image_height) ==
    resulting_width(image_width) * resulting_height(image_height) * conv2_features

\* the result of an operation whose operands do not fit
ShapeError == <<>>

\* the convolution with padding='VALID' and its 4x4 filter
conv2d_Valid(x, in_channels, out_channels) ==
    IF x = ShapeError \/ x[4] # in_channels \/ x[2] < 4 \/ x[3] < 4 THEN ShapeError
    ELSE <<x[1], x[2] - 3, x[3] - 3, out_channels>>

\* tf.nn.conv2d(x, filter, strides=[1,1,1,1], padding='SAME'), filter = [4,4,in,out]
conv2d_same(x, in_channels, out_channels) ==
    IF x = ShapeError \/ x[4] # in_channels THEN ShapeError
    ELSE <<x[1], CeilDiv(x[2], 1), CeilDiv(x[3], 1), out_channels>>

\* tf.nn.max_pool(x, ksize=[1,k,k,1], strides=[1,k,k,1], padding='SAME')
max_pool_same(x, k) ==
    IF x = ShapeError THEN ShapeError
    ELSE <<x[1], CeilDiv(x[2], k), CeilDiv(x[3], k), x[4]>>

\* final_shape and tf.reshape(max_pool2, [final_conv_shape[0], final_shape])
flatten(x) ==
    IF x = ShapeError THEN ShapeError ELSE <<x[1], x[2] * x[3] * x[4]>>

\* tf.matmul(a, b) for a weight matrix b = [rows, cols]
matmul(a, rows, cols) ==
    IF a = ShapeError \/ a[2] # rows THEN ShapeError ELSE <<a[1], cols>>

\* shape of max_pool2 for an input of shape x
max_pool2_shape(x) ==
    LET conv1 == conv2d_same(x, num_channels, conv1_features)
        max_pool1 == max_pool_same(conv1, max_pool_size1)
        conv2 == conv2d_same(max_pool1, conv1_features, conv2_features)
    IN max_pool_same(conv2, max_pool_size2)

\* shape of final_model_output; relu, bias_add, add and dropout keep the shape
my_conv_net(x, image_width, image_height) ==
    LET flat_output == flatten(max_pool2_shape(x))
        fully_connected1 == matmul(flat_output,
                                   full1_input_size(image_width, image_height),
                                   fully_connected_size1)
    IN matmul(fully_connected1, fully_connected_size1, target_size)

x_input_shape(image_width, image_height) ==
    <<batch_size, image_width, image_height, num_channels>>

ImageDims == (mnist_dim - DimSpread)..(mnist_dim + DimSpread)

ShapeInit ==
    /\ sh_pc = "declared"
    /\ sh_width \in ImageDims
    /\ sh_height \in ImageDims
    /\ sh_out = <<>>

\* model_output = my_conv_net(x_input)
BuildModel ==
    /\ sh_pc = "declared"
    /\ sh_out' = my_conv_net(x_input_shape(sh_width, sh_height), sh_width, sh_height)
    /\ sh_pc' = "built"
    /\ UNCHANGED <<sh_width, sh_height>>

(***************************************************************************)
(* The two production scripts as programs: the command-line dispatch at    *)
(* the end of each file, the unit tests, and the two training mains.       *)
(***************************************************************************)
Scripts == {"unit_tests", "serving"}

\* names are sequences of characters
N_test == <<"t", "e", "s", "t">>
N_test_session == <<"t", "e", "s", "t", "_", "s", "e", "s", "s", "i", "o", "n">>
N_dropout_greaterthan == <<"d", "r", "o", "p", "o", "u", "t", "_", "g", "r", "e", "a", "t", "e", "r", "t", "h", "a", "n">>
N_accuracy_exact_test == <<"a", "c", "c", "u", "r", "a", "c", "y", "_", "e", "x", "a", "c", "t", "_", "t", "e", "s", "t">>
N_output_shape_test == <<"o", "u", "t", "p", "u", "t", "_", "s", "h", "a", "p", "e", "_", "t", "e", "s", "t">>
N_clean_string_test == <<"c", "l", "e", "a", "n", "_", "s", "t", "r", "i", "n", "g", "_", "t", "e", "s", "t">>

\* the tf.test.TestCase classes of a script and the methods each defines
TestClasses(s) ==
    IF s = "unit_tests"
    THEN {[class |-> "drop_out_test", methods |-> {N_dropout_greaterthan}],
          [class |-> "accuracy_test", methods |-> {N_accuracy_exact_test}],
          [class |-> "shape_test", methods |-> {N_output_shape_test}]}
    ELSE {[class |-> "clean_test", methods |-> {N_clean_string_test}]}

\* the unit tests defined in the file, as <<class, method>>
DefinedTests(s) == UNION {{<<c.class, m>> : m \in c.methods} : c \in TestClasses(s)}

\* methods a test class inherits from tf.test.TestCase
InheritedMethods == {N_test_session}

\* name.startswith(prefix)
StartsWith(nm, prefix) ==
    /\ Len(nm) >= Len(prefix)
    /\ \A k \in 1..Len(prefix) : nm[k] = prefix[k]

\* the loader of tf.test.main collects the methods whose name starts with 'test'
IsTestMethod(nm) == StartsWith(nm, N_test)

\* tf.test.main(argv=cmd_args[1:]): with no test named on the command line the
\* collected methods of every test class are run; a name on the command
\* line that is no attribute of the module is an error and runs nothing
tf_test_main(s, test_argv) ==
    IF Len(test_argv) = 1
    THEN UNION {{<<c.class, m>> :
                    m \in {nm \in c.methods \cup InheritedMethods : IsTestMethod(nm)}} :
                c \in TestClasses(s)}
    ELSE {}

\* if len(cmd_args) > 1 and cmd_args[1] == 'test'
IsTestInvocation(cmd_args) == Len(cmd_args) > 1 /\ cmd_args[2] = "test"

\* parameters of the unit-tests script (lines 25-39)
generations == 100
eval_every == 5
dropout_prob == 75

\* defaults of the flags of the serving script (lines 27-35)
DefaultDropoutProb == 50
DefaultStorageFolder == "temp"

\* the keep probability the training step of the serving script feeds (line 238)
TrainFeedDropout(flags) == 50

\* num_batches = int(len(x_train) / batch_size) + 1
num_batches(len_x_train, batch) == (len_x_train \div batch) + 1

\* the states of the parts of the model a specification does not exercise
CtIdle == ct_pc = "idle" /\ ct_in = <<>> /\ ct_out = <<>>
GdIdle ==
    /\ fs_dirs = {} /\ fs_files = {} /\ fs_init = {}
    /\ gd_calls = [p \in Paths |-> 0]
    /\ gd_downloads = [p \in Paths |-> 0]
    /\ gd_last = [called |-> FALSE]
CpIdle == cp_pc = "idle" /\ cp_x = 0 /\ cp_out = 0
GaIdle == ga_pc = "idle" /\ ga_logits = <<>> /\ ga_targets = <<>> /\ ga_out = <<0, 1>>
ShIdle == sh_pc = "idle" /\ sh_width = mnist_dim /\ sh_height = mnist_dim /\ sh_out = <<>>

ArgWords == {"test", "train"}
ArgLists == SeqUpTo(ArgWords, MaxArgs)
FlagValues ==
    [storage_folder : {DefaultStorageFolder},
     dropout_prob : {DefaultDropoutProb, 80},
     epochs : 0..MaxEpochs,
     batch_size : 1..MaxBatch]

NoRun == [kind |-> "none", dropout |-> 100]

RunInit ==
    /\ script \in Scripts
    /\ argv \in {<<"prog">> \o a : a \in ArgLists}
    /\ IF script = "serving"
       THEN /\ FLAGS \in FlagValues
            /\ n_train \in 0..MaxTrain
            /\ GetDataInit
       ELSE /\ FLAGS = [storage_folder |-> DefaultStorageFolder,
                        dropout_prob |-> DefaultDropoutProb,
                        epochs |-> 0, batch_size |-> 1]
            /\ n_train = 0
            /\ GdIdle
    /\ pc = "start"
    /\ tests_run = {}
    /\ main_runs = 0
    /\ i = 0
    /\ fed = NoRun
    /\ train_steps = 0
    /\ train_loss = <<>> /\ train_acc = <<>> /\ test_acc = <<>>
    /\ evals = 0
    /\ epoch = 0
    /\ vocab_saved = FALSE
    /\ ckpt_saves = 0 /\ train_evals = 0 /\ test_evals = 0
    /\ exports = 0
    /\ done_printed = FALSE
    /\ signature_def_map = {}

umVars == <<train_loss, train_acc, test_acc, evals>>
smVars == <<epoch, vocab_saved, ckpt_saves, train_evals, test_evals, exports, done_printed, signature_def_map>>
cmdVars == <<script, argv, FLAGS, n_train>>

\* __main__ with 'test' as first argument: tf.test.main, which exits the process
RunTests ==
    /\ pc = "start"
    /\ IsTestInvocation(argv)
    /\ tests_run' = tf_test_main(script, SubSeq(argv, 2, Len(argv)))
    /\ pc' = "exit"
    /\ UNCHANGED <<cmdVars, main_runs, i, fed, train_steps, umVars, smVars, gdVars>>

\* __main__ otherwise: tf.app.run calls main of the unit-tests script
UnitMainStart ==
    /\ pc = "start"
    /\ script = "unit_tests"
    /\ ~IsTestInvocation(argv)
    /\ main_runs' = main_runs + 1
    /\ train_loss' = <<>> /\ train_acc' = <<>> /\ test_acc' = <<>>
    /\ i' = 0
    /\ pc' = "um_train"
    /\ UNCHANGED <<cmdVars, tests_run, fed, train_steps, evals, smVars, gdVars>>

\* the training step fed the drop rate 1 - dropout_prob instead of the keep
\* probability
UnitTrainStep_DropRate ==
    /\ pc = "um_train"
    /\ i < generations
    /\ fed' = [kind |-> "train", dropout |-> 100 - dropout_prob]
    /\ train_steps' = train_steps + 1
    /\ pc' = "um_train_eval"
    /\ UNCHANGED <<cmdVars, tests_run, main_runs, i, umVars, smVars, gdVars>>

\* sess.run(train_step, feed_dict=train_dict), line 170
UnitTrainStep ==
    /\ pc = "um_train"
    /\ i < generations
    /\ fed' = [kind |-> "train", dropout |-> dropout_prob]
    /\ train_steps' = train_steps + 1
    /\ pc' = "um_train_eval"
    /\ UNCHANGED <<cmdVars, tests_run, main_runs, i, umVars, smVars, gdVars>>

\* the test of line 174 on i instead of i + 1
UnitTrainEval_OffByOne ==
    /\ pc = "um_train_eval"
    /\ fed' = [kind |-> "train_eval", dropout |-> dropout_prob]
    /\ IF i % eval_every = 0
       THEN pc' = "um_test_eval" /\ i' = i
       ELSE pc' = "um_train" /\ i' = i + 1
    /\ UNCHANGED <<cmdVars, tests_run, main_runs, train_steps, umVars, smVars, gdVars>>

\* sess.run([loss, prediction], feed_dict=train_dict) and the test at line 174
UnitTrainEval ==
    /\ pc = "um_train_eval"
    /\ fed' = [kind |-> "train_eval", dropout |-> dropout_prob]
    /\ IF (i + 1) % eval_every = 0
       THEN pc' = "um_test_eval" /\ i' = i
       ELSE pc' = "um_train" /\ i' = i + 1
    /\ UNCHANGED <<cmdVars, tests_run, main_runs, train_steps, umVars, smVars, gdVars>>

\* lines 175-189: evaluation on test data, then the three appends; the
\* recorded element is kept as the generation i + 1 it was recorded at
UnitTestEval ==
    /\ pc = "um_test_eval"
    /\ fed' = [kind |-> "test_eval", dropout |-> 100]
    /\ train_loss' = Append(train_loss, i + 1)
    /\ train_acc' = Append(train_acc, i + 1)
    /\ test_acc' = Append(test_acc, i + 1)
    /\ evals' = evals + 1
    /\ i' = i + 1
    /\ pc' = "um_train"
    /\ UNCHANGED <<cmdVars, tests_run, main_runs, train_steps, smVars, gdVars>>

\* the loop of line 163 is exhausted and main returns
UnitMainDone ==
    /\ pc = "um_train"
    /\ i >= generations
    /\ pc' = "exit"
    /\ UNCHANGED <<cmdVars, tests_run, main_runs, i, fed, train_steps, umVars, smVars, gdVars>>

\* __main__ otherwise: tf.app.run calls main of the serving script.  Lines
\* 128-217: get_data(), cleaning, the vocabulary is fitted and saved, the
\* data is split, the graph is built and its variables are initialised
ServeMainStart ==
    /\ pc = "start"
    /\ script = "serving"
    /\ ~IsTestInvocation(argv)
    /\ main_runs' = main_runs + 1
    /\ get_data(FLAGS.storage_folder, "text_data.txt")
    /\ vocab_saved' = TRUE
    /\ epoch' = 0
    /\ pc' = "s_epoch"
    /\ UNCHANGED <<cmdVars, tests_run, i, fed, train_steps, umVars,
                   ckpt_saves, train_evals, test_evals, exports, done_printed,
                   signature_def_map>>

\* for epoch in range(epochs): shuffle, num_batches; or leave the loop
ServeEpoch ==
    /\ pc = "s_epoch"
    /\ IF epoch < FLAGS.epochs
       THEN pc' = "s_batch" /\ i' = 0
       ELSE pc' = "s_export" /\ i' = i
    /\ UNCHANGED <<cmdVars, tests_run, main_runs, fed, train_steps, umVars, smVars, gdVars>>

\* lines 229-242: one batch, sess.run([train_step, summary_op], train_dict)
ServeTrainStep ==
    /\ pc = "s_batch"
    /\ i < num_batches(n_train, FLAGS.batch_size)
    /\ fed' = [kind |-> "train", dropout |-> TrainFeedDropout(FLAGS)]
    /\ train_steps' = train_steps + 1
    /\ i' = i + 1
    /\ UNCHANGED <<cmdVars, pc, tests_run, main_runs, umVars, smVars, gdVars>>

\* line 245: loss and accuracy on the last train_dict
ServeTrainEval ==
    /\ pc = "s_batch"
    /\ i >= num_batches(n_train, FLAGS.batch_size)
    /\ fed' = [kind |-> "train_eval", dropout |-> TrainFeedDropout(FLAGS)]
    /\ train_evals' = train_evals + 1
    /\ pc' = "s_test_eval"
    /\ UNCHANGED <<cmdVars, tests_run, main_runs, i, train_steps, umVars, gdVars,
                   epoch, vocab_saved, ckpt_saves, test_evals, exports, done_printed,
                   signature_def_map>>

\* lines 247-252: loss and accuracy on the test set
ServeTestEval ==
    /\ pc = "s_test_eval"
    /\ fed' = [kind |-> "test_eval", dropout |-> 100]
    /\ test_evals' = test_evals + 1
    /\ pc' = "s_save"
    /\ UNCHANGED <<cmdVars, tests_run, main_runs, i, train_steps, umVars, gdVars,
                   epoch, vocab_saved, ckpt_saves, train_evals, exports, done_printed,
                   signature_def_map>>

\* the checkpoint written in the last epoch only
ServeSaveCheckpoint_LastOnly ==
    /\ pc = "s_save"
    /\ ckpt_saves' = IF epoch + 1 = FLAGS.epochs THEN ckpt_saves + 1 ELSE ckpt_saves
    /\ epoch' = epoch + 1
    /\ pc' = "s_epoch"
    /\ UNCHANGED <<cmdVars, tests_run, main_runs, i, fed, train_steps, umVars, gdVars,
                   vocab_saved, train_evals, test_evals, exports, done_printed,
                   signature_def_map>>

\* line 255: saver.save, the last statement of the epoch
ServeSaveCheckpoint ==
    /\ pc = "s_save"
    /\ ckpt_saves' = ckpt_saves + 1
    /\ epoch' = epoch + 1
    /\ pc' = "s_epoch"
    /\ UNCHANGED <<cmdVars, tests_run, main_runs, i, fed, train_steps, umVars, gdVars,
                   vocab_saved, train_evals, test_evals, exports, done_printed,
                   signature_def_map>>

(***************************************************************************)
(* The graph of main (lines 180-199) and the signatures of the export      *)
(* (lines 257-293).  A tensor is known by the name of the Python variable  *)
(* that holds it.                                                          *)
(***************************************************************************)
\* tf.placeholder: the tensors that have a value only when they are fed
Placeholders == {"x_data_ph", "y_output_ph", "dropout_keep_prob"}

\* the tensors an operation of the graph is computed from, directly
TensorInputs ==
    [x_data_ph |-> {},
     y_output_ph |-> {},
     dropout_keep_prob |-> {},
     rnn_model_outputs |-> {"x_data_ph", "dropout_keep_prob"},
     rnn_prediction |-> {"rnn_model_outputs"},
     losses |-> {"rnn_model_outputs", "y_output_ph"},
     loss |-> {"losses"},
     accuracy |-> {"rnn_model_outputs", "y_output_ph"}]

Tensors == DOMAIN TensorInputs

\* the tensors t is computed from, directly or through other operations
RECURSIVE ComputedFrom(_)
ComputedFrom(t) ==
    TensorInputs[t] \cup UNION {ComputedFrom(u) : u \in TensorInputs[t]}

\* tf.saved_model.utils.build_tensor_info(tensor)
build_tensor_info(tensor) == tensor

\* tf.saved_model.signature_constants
CLASSIFY_INPUTS == "inputs"
CLASSIFY_OUTPUT_CLASSES == "classes"
CLASSIFY_METHOD_NAME == "tensorflow/serving/classify"
PREDICT_METHOD_NAME == "tensorflow/serving/predict"
DEFAULT_SERVING_SIGNATURE_DEF_KEY == "serving_default"

\* tf.saved_model.signature_def_utils.build_signature_def; inputs and
\* outputs are sets of <<name, tensor>>
build_signature_def(inputs, outputs, method_name) ==
    [inputs |-> inputs, outputs |-> outputs, method_name |-> method_name]

\* lines 264-271
classification_signature ==
    LET classification_inputs == build_tensor_info("x_data_ph")
        classification_outputs_classes == build_tensor_info("rnn_model_outputs")
    IN build_signature_def({<<CLASSIFY_INPUTS, classification_inputs>>},
                           {<<CLASSIFY_OUTPUT_CLASSES, classification_outputs_classes>>},
                           CLASSIFY_METHOD_NAME)

\* lines 273-280
prediction_signature ==
    LET tensor_info_x == build_tensor_info("x_data_ph")
        tensor_info_y == build_tensor_info("y_output_ph")
    IN build_signature_def({<<"texts", tensor_info_x>>},
                           {<<"scores", tensor_info_y>>},
                           PREDICT_METHOD_NAME)

\* the signature_def_map of lines 285-290, as a set of <<key, signature>>
ExportedSignatures ==
    {<<"predict_spam", prediction_signature>>,
     <<DEFAULT_SERVING_SIGNATURE_DEF_KEY, classification_signature>>}

\* lines 257-293: the signatures are built and builder.save() writes the model
ServeExport ==
    /\ pc = "s_export"
    /\ exports' = exports + 1
    /\ signature_def_map' = ExportedSignatures
    /\ pc' = "s_print"
    /\ UNCHANGED <<cmdVars, tests_run, main_runs, i, fed, train_steps, umVars, gdVars,
                   epoch, vocab_saved, ckpt_saves, train_evals, test_evals, done_printed>>

\* line 295: print('Done exporting!'), then main returns
ServePrintDone ==
    /\ pc = "s_print"
    /\ done_printed' = TRUE
    /\ pc' = "exit"
    /\ UNCHANGED <<cmdVars, tests_run, main_runs, i, fed, train_steps, umVars, gdVars,
                   epoch, vocab_saved, ckpt_saves, train_evals, test_evals, exports,
                   signature_def_map>>

RunIdle ==
    /\ script = "none" /\ argv = <<>> /\ pc = "idle"
    /\ FLAGS = [storage_folder |-> DefaultStorageFolder, dropout_prob |-> DefaultDropoutProb,
                epochs |-> 0, batch_size |-> 1]
    /\ n_train = 0 /\ tests_run = {} /\ main_runs = 0 /\ i = 0 /\ fed = NoRun
    /\ train_steps = 0 /\ train_loss = <<>> /\ train_acc = <<>> /\ test_acc = <<>>
    /\ evals = 0 /\ epoch = 0 /\ vocab_saved = FALSE /\ ckpt_saves = 0
    /\ train_evals = 0 /\ test_evals = 0 /\ exports = 0 /\ done_printed = FALSE
    /\ signature_def_map = {}

(***************************************************************************)
(* Specifications.                                                         *)
(***************************************************************************)
\* clean_text applied to every argument of the bounded set
InitClean == CleanInit /\ GdIdle /\ CpIdle /\ GaIdle /\ ShIdle /\ RunIdle
NextClean == CleanText /\ UNCHANGED <<gdVars, cpVars, gaVars, shVars, runVars>>
SpecClean == InitClean /\ [][NextClean]_vars

\* calls of get_data from every disk state
InitData == GetDataInit /\ CtIdle /\ CpIdle /\ GaIdle /\ ShIdle /\ RunIdle
NextData == GetData /\ UNCHANGED <<ctVars, cpVars, gaVars, shVars, runVars>>
SpecData == InitData /\ [][NextData]_vars

\* custom_polynomial applied to every argument of the bounded set
InitPoly == PolyInit /\ CtIdle /\ GdIdle /\ GaIdle /\ ShIdle /\ RunIdle
NextPoly == CustomPolynomial /\ UNCHANGED <<ctVars, gdVars, gaVars, shVars, runVars>>
SpecPoly == InitPoly /\ [][NextPoly]_vars

\* get_accuracy applied to every argument of the bounded set
InitAcc == AccInit /\ CtIdle /\ GdIdle /\ CpIdle /\ ShIdle /\ RunIdle
NextAcc == GetAccuracy /\ UNCHANGED <<ctVars, gdVars, cpVars, shVars, runVars>>
SpecAcc == InitAcc /\ [][NextAcc]_vars

\* the model graph built for every image size of the bounded set
InitShape == ShapeInit /\ CtIdle /\ GdIdle /\ CpIdle /\ GaIdle /\ RunIdle
NextShape == BuildModel /\ UNCHANGED <<ctVars, gdVars, cpVars, gaVars, runVars>>
SpecShape == InitShape /\ [][NextShape]_vars

\* a run of one of the two production scripts
Init == RunInit /\ CtIdle /\ CpIdle /\ GaIdle /\ ShIdle
Next ==
    /\ \/ RunTests
       \/ UnitMainStart
       \/ UnitTrainStep
       \/ UnitTrainEval
       \/ UnitTestEval
       \/ UnitMainDone
       \/ ServeMainStart
       \/ ServeEpoch
       \/ ServeTrainStep
       \/ ServeTrainEval
       \/ ServeTestEval
       \/ ServeSaveCheckpoint
       \/ ServeExport
       \/ ServePrintDone
    /\ UNCHANGED <<ctVars, cpVars, gaVars, shVars>>
Spec == Init /\ [][Next]_vars

(***************************************************************************)
(* Properties.                                                             *)
(***************************************************************************)
IsLetter(c) == c \in Upper \cup Lower

\* the letters and whitespace characters of s, in order
LettersAndSpaces(s) == SelectSeq(s, LAMBDA c : IsLetter(c) \/ IsSpace(c))

\* position k of t survives: a letter, or the first whitespace character
\* after a letter when some letter follows it
Survives(t, k) ==
    \/ IsLetter(t[k])
    \/ /\ IsSpace(t[k])
       /\ k > 1 /\ IsLetter(t[k - 1])
       /\ \E j \in (k + 1)..Len(t) : IsLetter(t[j])

\* s without punctuation, underscores and digits, whitespace runs collapsed
\* to one space, trimmed, and lower-cased
ExpectedClean(s) ==
    LET t == LettersAndSpaces(s)
        keep == {k \in 1..Len(t) : Survives(t, k)}
        nth(n) == CHOOSE k \in keep : Cardinality({j \in keep : j <= k}) = n
    IN [n \in 1..Cardinality(keep) |->
            IF IsSpace(t[nth(n)]) THEN " "
            ELSE IF t[nth(n)] \in Upper THEN LowerOf[t[nth(n)]] ELSE t[nth(n)]]

\* r holds only lowercase letters and single interior spaces
LowerWords(r) ==
    \A k \in 1..Len(r) :
        /\ r[k] \in Lower \cup {" "}
        /\ r[k] = " " => k > 1 /\ k < Len(r) /\ r[k - 1] # " " /\ r[k + 1] # " "

\* C1: clean_text returns its argument with punctuation, underscores and
\* digits removed, whitespace runs collapsed to single spaces, trimmed and
\* lower-cased; the result holds only lowercase letters and single interior
\* spaces.
C1_CleanText ==
    ct_pc = "returned" => ct_out = ExpectedClean(ct_in) /\ LowerWords(ct_out)

C1_Witness == ct_pc = "returned" /\ ct_in = test_input /\ ct_out = test_expected

\* C2: get_data downloads exactly when the data file is absent, creates the
\* storage folder when missing and leaves the file present, so that for every
\* path at most the first call downloads, and only if the file was absent at
\* the start.
C2_GetData ==
    /\ \A p \in Paths :
         /\ gd_calls[p] > 0 => p \in fs_files /\ p[1] \in fs_dirs
         /\ gd_downloads[p] = IF gd_calls[p] > 0 /\ p \notin fs_init THEN 1 ELSE 0
    /\ gd_last.called =>
         /\ gd_last.downloaded = ~gd_last.file_before
         /\ gd_last.path \in fs_files
         /\ gd_last.path[1] \in fs_dirs

C2_Witness ==
    /\ gd_last.called /\ ~gd_last.downloaded
    /\ gd_calls[gd_last.path] = 2
    /\ gd_downloads[gd_last.path] = 1
    /\ \E q \in fs_files \ {gd_last.path} : q[1] = gd_last.path[1]

\* C3: custom_polynomial(x) is 3*x*x - x + 10; for x in 0..14 it is the
\* element of expected_output for x, and custom_polynomial(11) is 362.
C3_Polynomial ==
    cp_pc = "returned" =>
        /\ cp_out = 3 * cp_x * cp_x - cp_x + 10
        /\ cp_x \in test_nums => cp_out = expected_output[cp_x]
        /\ cp_x = 11 => cp_out = 362

C3_Witness == cp_pc = "returned" /\ cp_x = 11 /\ cp_out = 362

\* the column (from 0) of the first largest entry of a row
ArgMaxColumn(row) ==
    (CHOOSE k \in 1..Len(row) :
        /\ \A j \in 1..Len(row) : row[j] <= row[k]
        /\ \A j \in 1..(k - 1) : row[j] < row[k]) - 1

\* the rows whose arg-max column is the row's target
CorrectRows(logits, targets) ==
    {r \in 1..Len(logits) : ArgMaxColumn(logits[r]) = targets[r]}

\* C4: get_accuracy returns 100 * (rows whose arg-max column equals the
\* target) / (rows), and exactly 100 when every row is correct.
C4_Accuracy ==
    ga_pc = "returned" =>
        LET correct == Cardinality(CorrectRows(ga_logits, ga_targets))
            rows == Len(ga_logits)
        IN /\ ga_out[2] > 0
           /\ ga_out[1] * rows = 100 * correct * ga_out[2]
           /\ correct = rows => ga_out = <<100, 1>>

C4_Witness ==
    /\ ga_pc = "returned"
    /\ ga_logits = test_preds /\ ga_targets = test_targets
    /\ ga_out = <<100, 1>>

\* C5: for the 28x28 single-channel input the flattened size of the second
\* max-pool output equals full1_input_size, and the output of my_conv_net
\* has shape [batch_size, target_size] = [100, 10].
C5_OutputShape ==
    (sh_pc = "built" /\ sh_width = mnist_dim /\ sh_height = mnist_dim) =>
        LET pooled == max_pool2_shape(x_input_shape(sh_width, sh_height))
        IN /\ pooled = <<batch_size, CeilDiv(CeilDiv(sh_width, 2), 2),
                         CeilDiv(CeilDiv(sh_height, 2), 2), conv2_features>>
           /\ flatten(pooled)[2] = full1_input_size(sh_width, sh_height)
           /\ sh_out = <<batch_size, target_size>>
           /\ sh_out = <<100, 10>>

C5_Witness ==
    /\ sh_pc = "built" /\ sh_width = 28 /\ sh_height = 28
    /\ sh_out = <<100, 10>>

\* C6: in the CNN script every session run of the training loop feeds a
\* dropout keep probability greater than 0.25: 0.75 in the runs on the
\* training batch and 1.0 in the runs on test data.
C6_DropoutKept ==
    (script = "unit_tests" /\ fed.kind # "none") =>
        /\ fed.dropout > 25
        /\ fed.kind \in {"train", "train_eval"} => fed.dropout = 75
        /\ fed.kind = "test_eval" => fed.dropout = 100

C6_Witness ==
    /\ script = "unit_tests"
    /\ fed.kind = "train" /\ fed.dropout = 75
    /\ evals > 0

\* C7: a script invoked with 'test' as its first argument performs the unit
\* tests defined in the file and never runs main; invoked with any other
\* argument list it runs main and performs no unit test.
C7_TestDispatch ==
    pc = "exit" =>
        IF Len(argv) >= 2 /\ argv[2] = "test"
        THEN DefinedTests(script) \subseteq tests_run /\ main_runs = 0
        ELSE main_runs = 1 /\ tests_run = {}

\* C8: every training step of the serving script feeds the value of the
\* flag dropout_prob to the dropout_keep_prob placeholder.
C8_DropoutFlag ==
    (script = "serving" /\ fed.kind = "train") => fed.dropout = FLAGS.dropout_prob

\* C9: in main of the serving script the vocabulary is saved before any
\* training step, one checkpoint is saved at the end of every epoch after
\* that epoch's train and test evaluation, the model is exported once and
\* only after the last checkpoint, 'Done exporting!' follows the export, and
\* the run ends after epochs * num_batches training steps.
C9_SaveAndExport ==
    script = "serving" =>
        LET nb == (n_train \div FLAGS.batch_size) + 1
            in_epoch == IF pc = "s_batch" THEN i
                        ELSE IF pc \in {"s_test_eval", "s_save"} THEN nb ELSE 0
        IN /\ train_steps > 0 => vocab_saved
           /\ train_steps = ckpt_saves * nb + in_epoch
           /\ ckpt_saves <= FLAGS.epochs
           /\ test_evals = IF pc = "s_save" THEN ckpt_saves + 1 ELSE ckpt_saves
           /\ train_evals = IF pc \in {"s_test_eval", "s_save"}
                            THEN ckpt_saves + 1 ELSE ckpt_saves
           /\ exports = IF pc \in {"s_print", "exit"} /\ main_runs = 1 THEN 1 ELSE 0
           /\ exports = 1 => ckpt_saves = FLAGS.epochs
           /\ done_printed => exports = 1
           /\ (pc = "exit" /\ main_runs = 1) =>
                 /\ done_printed
                 /\ ckpt_saves = FLAGS.epochs
                 /\ train_steps = FLAGS.epochs * nb

C9_Witness ==
    /\ script = "serving" /\ pc = "exit" /\ done_printed
    /\ FLAGS.epochs = 2 /\ FLAGS.batch_size = 2 /\ n_train = 2
    /\ ckpt_saves = 2 /\ train_steps = 4 /\ exports = 1

\* C10: main of the CNN script runs one training step per generation and
\* evaluates on test data exactly at the generations that are multiples of
\* eval_every; train_loss, train_acc and test_acc always have the length of
\* the number of evaluations so far, 20 at termination; evaluation runs feed
\* dropout 1.0 and training runs feed dropout_prob.
C10_EvalSchedule ==
    script = "unit_tests" =>
        /\ Len(train_loss) = evals /\ Len(train_acc) = evals /\ Len(test_acc) = evals
        /\ \A k \in 1..evals :
              /\ train_loss[k] = k * eval_every
              /\ train_acc[k] = k * eval_every
              /\ test_acc[k] = k * eval_every
        /\ evals = i \div eval_every
        /\ pc = "um_train" => train_steps = i
        /\ pc \in {"um_train_eval", "um_test_eval"} => train_steps = i + 1
        /\ pc = "um_test_eval" => (i + 1) % eval_every = 0
        /\ (pc = "exit" /\ main_runs = 1) =>
              /\ train_steps = generations
              /\ evals = generations \div eval_every
              /\ Len(test_acc) = 20
        /\ fed.kind = "test_eval" => fed.dropout = 100
        /\ fed.kind = "train" => fed.dropout = dropout_prob

C10_Witness ==
    /\ script = "unit_tests" /\ pc = "exit" /\ main_runs = 1
    /\ Len(train_loss) = 20 /\ Len(train_acc) = 20 /\ Len(test_acc) = 20
    /\ test_acc[20] = 100

\* C11: the exported SavedModel has exactly the signatures 'predict_spam' and
\* the default serving signature; in each the input is the text placeholder
\* x_data_ph and every output is a tensor the model computes from that
\* input, never an input placeholder.
C11_ServingSignatures ==
    exports = 1 =>
        /\ {e[1] : e \in signature_def_map} = {"predict_spam", "serving_default"}
        /\ Cardinality(signature_def_map) = 2
        /\ \A e \in signature_def_map :
              /\ {inp[2] : inp \in e[2].inputs} = {"x_data_ph"}
              /\ e[2].outputs # {}
              /\ \A out \in e[2].outputs :
                    /\ out[2] \notin Placeholders
                    /\ \A inp \in e[2].inputs : inp[2] \in ComputedFrom(out[2])
====
